---- MODULE Spec2Model ----
(***************************************************************************)
(* A model of the inotifywait utility (src/src/inotifywait/main.rs):       *)
(* InotifywaitCmd::run, setup_flags and add_watch, together with the part  *)
(* of the kernel and of the filesystem they talk to; and of                *)
(* process_escapes and convert_number of the echo utility                  *)
(* (src/src/echo/main.rs).                                                 *)
(***************************************************************************)
EXTENDS Integers, Sequences, FiniteSets, TLC

VARIABLES
    events,      \* Args::events, the --event tokens in command-line order
    monitor,     \* Args::monitor
    recursive,   \* Args::recursive
    files,       \* Args::files, shrunk by files.remove(i) in run
    argv_files,  \* the positional arguments as given on the command line
    flags,       \* the WatchMask under construction in setup_flags / held by run
    ei,          \* position of `for each in &args.events`
    inotify,     \* InotifywaitCmd::inotify is Some(..)
    wd_map,      \* InotifywaitCmd::wd_map, WatchDescriptor -> path
    os_watches,  \* the kernel's watches of this inotify instance, path -> wd
    i,           \* loop variable of `for i in 0..self.arg.files.len()`
    n,           \* end of that range, evaluated once on loop entry
    stack,       \* the live add_watch frames, innermost last
    batch,       \* the events of the current read not yet iterated
    received,    \* every batch read_events_blocking has returned, in order
    stdout,      \* the lines printed so far
    pc,          \* position of the process
    exit_code,   \* exit status: -1 while running, 101 for a panic
    input,       \* echo: the String process_escapes rewrites, as code points
    epc,         \* echo: position inside process_escapes
    calls        \* echo: calls of convert_number made so far

vars == <<events, monitor, recursive, files, argv_files, flags, ei, inotify,
          wd_map, os_watches, i, n, stack, batch, received, stdout, pc, exit_code,
          input, epc, calls>>

echo == <<input, epc, calls>>

args == <<events, monitor, recursive, argv_files>>

-----------------------------------------------------------------------------
(* Bounds of the model.                                                    *)

MaxEvents == 2      \* --event tokens in a run of the whole program
MaxFlagTokens == 3  \* --event tokens when only setup_flags is explored
MaxFiles == 2       \* positional arguments
MaxFaults == 1      \* failing system calls per run
MaxReceived == 3    \* events delivered per run, over all batches

-----------------------------------------------------------------------------
(* WatchMask bits (inotify::WatchMask, the values of <sys/inotify.h>).     *)

ACCESS == 1
MODIFY == 2
ATTRIB == 4
CLOSE_WRITE == 8
CLOSE_NOWRITE == 16
OPEN == 32
MOVED_FROM == 64
MOVED_TO == 128
CREATE == 256
DELETE == 512
DELETE_SELF == 1024
MOVE_SELF == 2048
Q_OVERFLOW == 16384

RECURSIVE BitOr(_, _)
BitOr(a, b) ==
    IF a = 0 THEN b
    ELSE IF b = 0 THEN a
    ELSE (IF a % 2 = 1 \/ b % 2 = 1 THEN 1 ELSE 0) + 2 * BitOr(a \div 2, b \div 2)

CLOSE == BitOr(CLOSE_WRITE, CLOSE_NOWRITE)
MOVE == BitOr(MOVED_FROM, MOVED_TO)

EmptyMask == 0

(* The arms of the match in setup_flags; the `_` arm is IsRecognized false. *)
RecognizedAll(each) == TRUE

IsRecognized(each) ==
    each \in {"access", "modify", "attrib", "close_write", "close_nowrite",
              "close", "open", "moved_to", "moved_from", "move", "moved_self",
              "create", "delete", "delete_self"}

TokenMask(each) ==
    CASE each = "access" -> ACCESS
      [] each = "modify" -> MODIFY
      [] each = "attrib" -> ATTRIB
      [] each = "close_write" -> CLOSE_WRITE
      [] each = "close_nowrite" -> CLOSE_NOWRITE
      [] each = "close" -> CLOSE
      [] each = "open" -> OPEN
      [] each = "moved_to" -> MOVED_TO
      [] each = "moved_from" -> MOVED_FROM
      [] each = "move" -> MOVE
      [] each = "moved_self" -> MOVE_SELF
      [] each = "create" -> CREATE
      [] each = "delete" -> DELETE
      [] each = "delete_self" -> DELETE_SELF
      [] OTHER -> EmptyMask

(* `flags |= ...` *)
OrAssignOverwrite(acc, m) == m

OrAssign(acc, m) == BitOr(acc, m)

(* The 0 arm of `match args.events.len()`. *)
DefaultMaskNoOpen ==
    BitOr(ACCESS, BitOr(ATTRIB, BitOr(CLOSE_NOWRITE, BitOr(CLOSE_WRITE,
    BitOr(CREATE, BitOr(DELETE, BitOr(DELETE_SELF, BitOr(MODIFY,
    BitOr(MOVED_FROM, BitOr(MOVED_TO, MOVE_SELF))))))))))

DefaultMask ==
    BitOr(ACCESS, BitOr(ATTRIB, BitOr(CLOSE_NOWRITE, BitOr(CLOSE_WRITE,
    BitOr(CREATE, BitOr(DELETE, BitOr(DELETE_SELF, BitOr(MODIFY,
    BitOr(MOVED_FROM, BitOr(MOVED_TO, BitOr(MOVE_SELF, OPEN)))))))))))

-----------------------------------------------------------------------------
(* Output lines.                                                           *)

Line(kind, path, mask, name) == [kind |-> kind, path |-> path, mask |-> mask, name |-> name]

Msg(kind, path) == Line(kind, path, 0, "")

Printed(kind) == \E k \in 1..Len(stdout) : stdout[k].kind = kind

-----------------------------------------------------------------------------
(* Command lines.                                                          *)

SeqsUpTo(S, k) == UNION {[1..m -> S] : m \in 0..k}

AllTokens ==
    {"access", "modify", "attrib", "close_write", "close_nowrite", "close",
     "open", "moved_to", "moved_from", "move", "moved_self", "create",
     "delete", "delete_self", "move_self"}

RunTokens == {"create", "move_self"}

InputPaths == {"root", "root/c", "f", "missing"}

Start(ev, mon, rec, fs) ==
    /\ events = ev
    /\ monitor = mon
    /\ recursive = rec
    /\ files = fs
    /\ argv_files = fs
    /\ flags = EmptyMask
    /\ ei = 1
    /\ inotify = FALSE
    /\ wd_map = <<>>
    /\ os_watches = <<>>
    /\ i = 0
    /\ n = 0
    /\ stack = <<>>
    /\ batch = <<>>
    /\ received = <<>>
    /\ stdout = <<>>
    /\ pc = "setup_flags"
    /\ exit_code = -1

(* The echo utility is another program: it is not running here.            *)
EchoIdle ==
    /\ input = <<>>
    /\ epc = "idle"
    /\ calls = 0

Init ==
    \E ev \in SeqsUpTo(RunTokens, MaxEvents), mon \in BOOLEAN, rec \in BOOLEAN,
       fs \in SeqsUpTo(InputPaths, MaxFiles) :
        Start(ev, mon, rec, fs) /\ EchoIdle

InitFlags ==
    \E ev \in SeqsUpTo(AllTokens, MaxFlagTokens), mon \in BOOLEAN :
        Start(ev, mon, FALSE, <<>>) /\ EchoIdle

-----------------------------------------------------------------------------
(* setup_flags                                                             *)

Exit(code) ==
    /\ pc' = "exited"
    /\ exit_code' = code

SetupFlagsDefault ==
    /\ pc = "setup_flags"
    /\ Len(events) = 0
    /\ flags' = DefaultMask
    /\ pc' = "setup_watches"
    /\ UNCHANGED <<args, echo, files, ei, inotify, wd_map, os_watches, i, n, stack,
                   batch, received, stdout, exit_code>>

SetupFlagsToken ==
    /\ pc = "setup_flags"
    /\ Len(events) # 0
    /\ ei <= Len(events)
    /\ IsRecognized(events[ei])
    /\ flags' = OrAssign(flags, TokenMask(events[ei]))
    /\ ei' = ei + 1
    /\ UNCHANGED <<args, echo, files, inotify, wd_map, os_watches, i, n, stack,
                   batch, received, stdout, pc, exit_code>>

SetupFlagsUnknown ==
    /\ pc = "setup_flags"
    /\ Len(events) # 0
    /\ ei <= Len(events)
    /\ ~IsRecognized(events[ei])
    /\ stdout' = Append(stdout, Msg("unknown event type", events[ei]))
    /\ Exit(1)
    /\ UNCHANGED <<args, echo, files, flags, ei, inotify, wd_map, os_watches, i, n,
                   stack, batch, received>>

SetupFlagsReturn ==
    /\ pc = "setup_flags"
    /\ Len(events) # 0
    /\ ei > Len(events)
    /\ pc' = "setup_watches"
    /\ UNCHANGED <<args, echo, files, flags, ei, inotify, wd_map, os_watches, i, n,
                   stack, batch, received, stdout, exit_code>>

-----------------------------------------------------------------------------
(* run, up to Inotify::init                                                *)

RunNoFiles ==
    /\ pc = "setup_watches"
    /\ Len(files) = 0
    /\ stdout' = stdout \o <<Msg("Setting up watches.", ""),
                             Msg("No files specified to watch!", "")>>
    /\ pc' = "returned"
    /\ exit_code' = 0
    /\ UNCHANGED <<args, echo, files, flags, ei, inotify, wd_map, os_watches, i, n,
                   stack, batch, received>>

-----------------------------------------------------------------------------
(* The filesystem the process runs against, and the kernel's answers.      *)

Dirs == {"root", "root/a", "root/b", "root/c", "root/c/d"}

RegularFiles == {"f", "root/b/file.txt"}

Exists(p) == p \in Dirs \cup RegularFiles

(* What read_dir yields for a directory: dir_entry.path() of each child.   *)
Entries(p) ==
    CASE p = "root" -> {"root/a", "root/b", "root/c"}
      [] p = "root/b" -> {"root/b/file.txt"}
      [] p = "root/c" -> {"root/c/d"}
      [] OTHER -> {}

(* read_dir returns the entries in an order of the filesystem's choosing.  *)
Orders(S) == {o \in [1..Cardinality(S) -> S] : \A x \in S : \E k \in DOMAIN o : o[k] = x}

ErrorKinds ==
    {"failed to initialize inotify", "error when getting metadata of",
     "error when reading directory", "failed to add inotify watch for"}

(* A system call on an existing object may still fail (EACCES, ENOSPC..); *)
(* the model injects at most MaxFaults such failures per run.              *)
Injected ==
    Cardinality({k \in 1..Len(stdout) :
                    stdout[k].kind \in ErrorKinds /\ stdout[k].path # "missing"})

MayFail == Injected < MaxFaults

(* metadata.is_dir() / file_type.is_dir(), lines 52 and 67.                *)
AnyEntryIsDir(p) == TRUE

IsDir(p) == p \in Dirs

EntryIsDir(p) == IsDir(p)

Top == stack[Len(stack)]

Frame(filename) == [filename |-> filename, todo |-> <<>>]

SetTodo(todo) == [stack EXCEPT ![Len(stack)].todo = todo]

(* `return` from add_watch: back into the caller's `for entry in iter`, or *)
(* into the loop of run.                                                   *)
Return ==
    /\ stack' = SubSeq(stack, 1, Len(stack) - 1)
    /\ IF Len(stack) = 1
       THEN pc' = "files_loop" /\ i' = i + 1
       ELSE pc' = "entries" /\ i' = i

Panic ==
    /\ pc' = "panicked"
    /\ exit_code' = 101

-----------------------------------------------------------------------------
(* run: Inotify::init and the loop over the input paths                    *)

RunInotifyInit ==
    /\ pc = "setup_watches"
    /\ Len(files) # 0
    /\ stdout' = Append(stdout, Msg("Setting up watches.", ""))
    /\ inotify' = TRUE
    /\ n' = Len(files)
    /\ i' = 0
    /\ pc' = "files_loop"
    /\ UNCHANGED <<args, echo, files, flags, ei, wd_map, os_watches, stack, batch,
                   received, exit_code>>

RunInotifyInitFails ==
    /\ pc = "setup_watches"
    /\ Len(files) # 0
    /\ MayFail
    /\ stdout' = stdout \o <<Msg("Setting up watches.", ""),
                             Msg("failed to initialize inotify", "")>>
    /\ Exit(1)
    /\ UNCHANGED <<args, echo, files, flags, ei, inotify, wd_map, os_watches, i, n,
                   stack, batch, received>>

(* `let filename = self.arg.files.remove(i); self.add_watch(filename, flags)` *)
RemoveAt(s, k) == SubSeq(s, 1, k) \o SubSeq(s, k + 2, Len(s))

FilesLoopNext ==
    /\ pc = "files_loop"
    /\ i < n
    /\ i < Len(files)
    /\ files' = RemoveAt(files, i)
    /\ stack' = <<Frame(files[i + 1])>>
    /\ pc' = "add_watch"
    /\ UNCHANGED <<args, echo, flags, ei, inotify, wd_map, os_watches, i, n, batch,
                   received, stdout, exit_code>>

(* Vec::remove panics when the index is not below the current length.      *)
FilesLoopPanic ==
    /\ pc = "files_loop"
    /\ i < n
    /\ i >= Len(files)
    /\ Panic
    /\ UNCHANGED <<args, echo, files, flags, ei, inotify, wd_map, os_watches, i, n,
                   stack, batch, received, stdout>>

FilesLoopDone ==
    /\ pc = "files_loop"
    /\ i = n
    /\ stdout' = Append(stdout, Msg("Watches established.", ""))
    /\ pc' = "read"
    /\ UNCHANGED <<args, echo, files, flags, ei, inotify, wd_map, os_watches, i, n,
                   stack, batch, received, exit_code>>

-----------------------------------------------------------------------------
(* add_watch                                                               *)

AddWatchMetadataErr ==
    /\ pc = "add_watch"
    /\ \/ ~Exists(Top.filename)
       \/ MayFail
    /\ stdout' = Append(stdout, Msg("error when getting metadata of", Top.filename))
    /\ Return
    /\ UNCHANGED <<args, echo, files, flags, ei, inotify, wd_map, os_watches, n,
                   batch, received, exit_code>>

AddWatchNotDir ==
    /\ pc = "add_watch"
    /\ Exists(Top.filename)
    /\ ~IsDir(Top.filename)
    /\ pc' = "inotify_add_watch"
    /\ UNCHANGED <<args, echo, files, flags, ei, inotify, wd_map, os_watches, i, n,
                   stack, batch, received, stdout, exit_code>>

AddWatchReadDir ==
    /\ pc = "add_watch"
    /\ Exists(Top.filename)
    /\ IsDir(Top.filename)
    /\ \E order \in Orders(Entries(Top.filename)) : stack' = SetTodo(order)
    /\ pc' = "entries"
    /\ UNCHANGED <<args, echo, files, flags, ei, inotify, wd_map, os_watches, i, n,
                   batch, received, stdout, exit_code>>

AddWatchReadDirErrSkip ==
    /\ pc = "add_watch"
    /\ Exists(Top.filename)
    /\ IsDir(Top.filename)
    /\ MayFail
    /\ stdout' = Append(stdout, Msg("error when reading directory", Top.filename))
    /\ Return
    /\ UNCHANGED <<args, echo, files, flags, ei, inotify, wd_map, os_watches, n,
                   batch, received, exit_code>>

AddWatchReadDirErr ==
    /\ pc = "add_watch"
    /\ Exists(Top.filename)
    /\ IsDir(Top.filename)
    /\ MayFail
    /\ stdout' = Append(stdout, Msg("error when reading directory", Top.filename))
    /\ Exit(1)
    /\ UNCHANGED <<args, echo, files, flags, ei, inotify, wd_map, os_watches, i, n,
                   stack, batch, received>>

(* The filter closure on an entry the iterator failed to read, or whose    *)
(* file_type() fails: both print and exit.                                 *)
AddWatchEntryErr ==
    /\ pc = "entries"
    /\ Top.todo # <<>>
    /\ MayFail
    /\ \/ stdout' = Append(stdout, Msg("error when reading directory", Top.filename))
       \/ stdout' = Append(stdout, Msg("error when getting metadata of", Head(Top.todo)))
    /\ Exit(1)
    /\ UNCHANGED <<args, echo, files, flags, ei, inotify, wd_map, os_watches, i, n,
                   stack, batch, received>>

AddWatchEntrySkip ==
    /\ pc = "entries"
    /\ Top.todo # <<>>
    /\ ~EntryIsDir(Head(Top.todo))
    /\ stack' = SetTodo(Tail(Top.todo))
    /\ UNCHANGED <<args, echo, files, flags, ei, inotify, wd_map, os_watches, i, n,
                   batch, received, stdout, pc, exit_code>>

AddWatchRecurse ==
    /\ pc = "entries"
    /\ Top.todo # <<>>
    /\ EntryIsDir(Head(Top.todo))
    /\ stack' = Append(SetTodo(Tail(Top.todo)), Frame(Head(Top.todo)))
    /\ pc' = "add_watch"
    /\ UNCHANGED <<args, echo, files, flags, ei, inotify, wd_map, os_watches, i, n,
                   batch, received, stdout, exit_code>>

AddWatchEntriesDone ==
    /\ pc = "entries"
    /\ Top.todo = <<>>
    /\ pc' = "inotify_add_watch"
    /\ UNCHANGED <<args, echo, files, flags, ei, inotify, wd_map, os_watches, i, n,
                   stack, batch, received, stdout, exit_code>>

(* inotify_add_watch(2): a path already watched keeps its descriptor, a    *)
(* new one gets the next descriptor, counted from 1.                       *)
KernelWd(p) ==
    IF p \in DOMAIN os_watches THEN os_watches[p]
    ELSE Cardinality(DOMAIN os_watches) + 1

Insert(map, key, value) ==
    [k \in DOMAIN map \cup {key} |-> IF k = key THEN value ELSE map[k]]

AddWatchRegister ==
    /\ pc = "inotify_add_watch"
    /\ inotify
    /\ LET wd == KernelWd(Top.filename) IN
        /\ os_watches' = Insert(os_watches, Top.filename, wd)
        /\ wd_map' = Insert(wd_map, wd, Top.filename)
    /\ Return
    /\ UNCHANGED <<args, echo, files, flags, ei, inotify, n, batch, received,
                   stdout, exit_code>>

AddWatchRefused ==
    /\ pc = "inotify_add_watch"
    /\ inotify
    /\ MayFail
    /\ stdout' = Append(stdout, Msg("failed to add inotify watch for", Top.filename))
    /\ Return
    /\ UNCHANGED <<args, echo, files, flags, ei, inotify, wd_map, os_watches, n,
                   batch, received, exit_code>>

-----------------------------------------------------------------------------
(* run: the event loop                                                     *)

ISDIR == 1073741824

CreateDir == CREATE + ISDIR

(* The events a read may deliver: name is the Option<&OsStr> of the event, *)
(* <<>> for None. Descriptor -1 is the kernel's queue-overflow event.      *)
EventUniverse ==
    {[wd |-> 1, mask |-> CreateDir, name |-> <<"new">>],
     [wd |-> -1, mask |-> Q_OVERFLOW, name |-> <<>>]}

RECURSIVE Flatten(_)
Flatten(bs) == IF bs = <<>> THEN <<>> ELSE Head(bs) \o Flatten(Tail(bs))

(* A blocking read returns at least one event.                             *)
Batches == SeqsUpTo(EventUniverse, MaxReceived - Len(Flatten(received))) \ {<<>>}

ReadEvents ==
    /\ pc = "read"
    /\ inotify
    /\ \E b \in Batches :
        /\ batch' = b
        /\ received' = Append(received, b)
    /\ pc' = "for_events"
    /\ UNCHANGED <<args, echo, files, flags, ei, inotify, wd_map, os_watches, i, n,
                   stack, stdout, exit_code>>

(* `.expect("failed to read inotify event")` *)
ReadEventsFails ==
    /\ pc = "read"
    /\ inotify
    /\ Panic
    /\ UNCHANGED <<args, echo, files, flags, ei, inotify, wd_map, os_watches, i, n,
                   stack, batch, received, stdout>>

(* `event.name.map_or("", |n| n.to_str().map_or("", |n| n))` *)
FileName(name) == IF name = <<>> THEN "" ELSE name[1]

(* `self.wd_map.get(&event.wd).map_or("", |path| path)` *)
ResolveUnknownMarker(map, wd) == IF wd \in DOMAIN map THEN map[wd] ELSE "?"

Resolve(map, wd) == IF wd \in DOMAIN map THEN map[wd] ELSE ""

EventLine(e) == Line("event", Resolve(wd_map, e.wd), e.mask, FileName(e.name))

(* Where control goes after the println! of one event, lines 160-163.      *)
AfterEmitBreakInner(mon, rest) ==
    IF ~mon THEN "read" ELSE IF rest = <<>> THEN "read" ELSE "for_events"

AfterEmitDropRest(mon, rest) == IF ~mon THEN "returned" ELSE "read"

AfterEmit(mon, rest) ==
    IF ~mon THEN "returned" ELSE IF rest = <<>> THEN "read" ELSE "for_events"

(* The body of `for event in events`, lines 152-163: print, then apply the  *)
(* termination policy. Nothing here touches wd_map or the kernel's watches.*)
EmitEventWatchesNewDir ==
    /\ pc = "for_events"
    /\ batch # <<>>
    /\ stdout' = Append(stdout, EventLine(Head(batch)))
    /\ pc' = AfterEmit(monitor, Tail(batch))
    /\ batch' = IF pc' = "for_events" THEN Tail(batch) ELSE <<>>
    /\ exit_code' = IF pc' = "returned" THEN 0 ELSE exit_code
    /\ IF Head(batch).mask = CreateDir /\ Head(batch).wd \in DOMAIN wd_map
       THEN LET path == FileName(Head(batch).name)
                wd == KernelWd(path) IN
            /\ os_watches' = Insert(os_watches, path, wd)
            /\ wd_map' = Insert(wd_map, wd, path)
       ELSE UNCHANGED <<wd_map, os_watches>>
    /\ UNCHANGED <<args, echo, files, flags, ei, inotify, i, n, stack, received>>

EmitEvent ==
    /\ pc = "for_events"
    /\ batch # <<>>
    /\ stdout' = Append(stdout, EventLine(Head(batch)))
    /\ pc' = AfterEmit(monitor, Tail(batch))
    /\ batch' = IF pc' = "for_events" THEN Tail(batch) ELSE <<>>
    /\ exit_code' = IF pc' = "returned" THEN 0 ELSE exit_code
    /\ UNCHANGED <<args, echo, files, flags, ei, inotify, wd_map, os_watches, i, n,
                   stack, received>>

Next ==
    \/ SetupFlagsDefault
    \/ SetupFlagsToken
    \/ SetupFlagsUnknown
    \/ SetupFlagsReturn
    \/ RunNoFiles
    \/ RunInotifyInit
    \/ RunInotifyInitFails
    \/ FilesLoopNext
    \/ FilesLoopPanic
    \/ FilesLoopDone
    \/ AddWatchMetadataErr
    \/ AddWatchNotDir
    \/ AddWatchReadDir
    \/ AddWatchReadDirErr
    \/ AddWatchEntryErr
    \/ AddWatchEntrySkip
    \/ AddWatchRecurse
    \/ AddWatchEntriesDone
    \/ AddWatchRegister
    \/ AddWatchRefused
    \/ ReadEvents
    \/ ReadEventsFails
    \/ EmitEvent

Spec == Init /\ [][Next]_vars

NextFlags ==
    \/ SetupFlagsDefault
    \/ SetupFlagsToken
    \/ SetupFlagsUnknown
    \/ SetupFlagsReturn
    \/ RunNoFiles

SpecFlags == InitFlags /\ [][NextFlags]_vars

-----------------------------------------------------------------------------
(* The echo utility: process_escapes and convert_number.                   *)
(* A String is modelled as the sequence of its code points; the inputs are *)
(* ASCII, where byte offsets (find, len, replace_range) and char offsets   *)
(* (chars().nth) coincide. Offsets are 0-based as in the source.           *)

MaxLen == 4     \* length of the argument string
MaxCalls == 6   \* calls of convert_number explored in one run

Backslash == 92
LetterX == 120
Digit0 == 48

(* '\\', 'x', '0', '4', 'f', 'c' *)
EchoChars == {Backslash, LetterX, Digit0, 52, 102, 99}

At(s, k) == s[k + 1]

(* &input[a..b] *)
Slice(s, a, b) == SubSeq(s, a + 1, b)

(* input.replace_range(a..b, r) *)
ReplaceRange(s, a, b, r) == SubSeq(s, 1, a) \o r \o SubSeq(s, b + 1, Len(s))

(* str::replace of the two-character pattern `\` c by the character r:     *)
(* every non-overlapping match, left to right.                             *)
RECURSIVE ReplaceEscape(_, _, _)
ReplaceEscape(s, c, r) ==
    IF Len(s) < 2 THEN s
    ELSE IF s[1] = Backslash /\ s[2] = c
         THEN <<r>> \o ReplaceEscape(SubSeq(s, 3, Len(s)), c, r)
         ELSE <<s[1]>> \o ReplaceEscape(Tail(s), c, r)

(* The chain of replace calls, lines 60-69: \n \t \a \b \c \e \f \r \v.    *)
ReplaceAll(s) ==
    LET s1 == ReplaceEscape(s, 110, 10)
        s2 == ReplaceEscape(s1, 116, 9)
        s3 == ReplaceEscape(s2, 97, 7)
        s4 == ReplaceEscape(s3, 98, 8)
        s5 == ReplaceEscape(s4, 99, 0)
        s6 == ReplaceEscape(s5, 101, 27)
        s7 == ReplaceEscape(s6, 102, 12)
        s8 == ReplaceEscape(s7, 114, 13)
    IN  ReplaceEscape(s8, 118, 11)

(* input.find(..): the offset of the first match, or -1 for None.          *)
FindChar(s, c) ==
    IF \E k \in 1..Len(s) : s[k] = c
    THEN (CHOOSE k \in 1..Len(s) : s[k] = c /\ \A j \in 1..(k - 1) : s[j] # c) - 1
    ELSE -1

FindEscape(s, c) ==
    LET hits == {k \in 1..(Len(s) - 1) : s[k] = Backslash /\ s[k + 1] = c}
    IN  IF hits = {} THEN -1
        ELSE (CHOOSE k \in hits : \A j \in hits : k <= j) - 1

(* Lines 71-76: cut the string at the first NUL.                           *)
TruncateAtNul(s) ==
    IF FindChar(s, 0) = -1 THEN s ELSE SubSeq(s, 1, FindChar(s, 0))

(* char::to_digit: the value of a digit, or 36 for a character that is     *)
(* no digit in any radix.                                                  *)
DigitValue(c) ==
    IF c \in 48..57 THEN c - 48
    ELSE IF c \in 97..122 THEN c - 87
    ELSE IF c \in 65..90 THEN c - 55
    ELSE 36

RECURSIVE DigitsValue(_, _)
DigitsValue(ds, base) ==
    IF ds = <<>> THEN 0
    ELSE DigitsValue(SubSeq(ds, 1, Len(ds) - 1), base) * base + DigitValue(ds[Len(ds)])

(* u32::from_str_radix: -1 for Err (empty, a lone sign, a character that   *)
(* is no digit of the base); a leading '+' is accepted.                    *)
FromStrRadix(ds, base) ==
    LET body == IF ds # <<>> /\ ds[1] = 43 THEN Tail(ds) ELSE ds
    IN  IF body = <<>> \/ \E k \in 1..Len(body) : DigitValue(body[k]) >= base
        THEN -1
        ELSE DigitsValue(body, base)

(* char::from_u32 is None for surrogates and beyond U+10FFFF.              *)
IsChar(v) == v \in 0..55295 \/ v \in 57344..1114111

IsAscii(v) == v <= 127

(* `for i in 1..num_len`, lines 33-43: the last offset below which no      *)
(* backslash was met; a missing character does not stop the loop.          *)
RECURSIVE ScanEnd(_, _, _, _, _)
ScanEnd(s, sep_begin, k, num_len, sep_end) ==
    IF k >= num_len THEN sep_end
    ELSE IF sep_begin + k < Len(s)
         THEN IF At(s, sep_begin + k) = Backslash THEN sep_end
              ELSE ScanEnd(s, sep_begin, k + 1, num_len, sep_begin + k)
         ELSE ScanEnd(s, sep_begin, k + 1, num_len, sep_end)

ConvertNumber(s, base, idx) ==
    LET sep_begin == idx + 2
        num_len == IF base = 8 THEN 3 ELSE 2
        sep_end == ScanEnd(s, sep_begin, 1, num_len, sep_begin) + 1
        v == FromStrRadix(Slice(s, sep_begin, sep_end), base)
    IN  IF sep_begin >= Len(s) THEN ReplaceRange(s, idx, idx + 2, <<>>)
        ELSE IF base \notin {8, 16} THEN s
        ELSE IF v = -1 THEN s
        ELSE IF ~IsChar(v) THEN ReplaceRange(s, idx, sep_end, <<>>)
        ELSE IF IsAscii(v) THEN ReplaceRange(s, idx, sep_end, <<v>>)
        ELSE s

(* process_escapes, lines 60-76 *)
ProcessEscapesReplace ==
    /\ epc = "replace"
    /\ input' = TruncateAtNul(ReplaceAll(input))
    /\ epc' = "hex_loop"
    /\ UNCHANGED <<args, files, flags, ei, inotify, wd_map, os_watches, i, n,
                   stack, batch, received, stdout, pc, exit_code, calls>>

(* One iteration of the loop of lines 78-85 that finds "\x". *)
HexLoopConvert ==
    /\ epc = "hex_loop"
    /\ FindEscape(input, LetterX) # -1
    /\ calls < MaxCalls
    /\ input' = ConvertNumber(input, 16, FindEscape(input, LetterX))
    /\ calls' = calls + 1
    /\ UNCHANGED <<args, files, flags, ei, inotify, wd_map, os_watches, i, n,
                   stack, batch, received, stdout, pc, exit_code, epc>>

HexLoopBreak ==
    /\ epc = "hex_loop"
    /\ FindEscape(input, LetterX) = -1
    /\ epc' = "octal_loop"
    /\ UNCHANGED <<args, files, flags, ei, inotify, wd_map, os_watches, i, n,
                   stack, batch, received, stdout, pc, exit_code, input, calls>>

(* One iteration of the loop of lines 87-96 that finds "\0". *)
OctalLoopConvert ==
    /\ epc = "octal_loop"
    /\ FindEscape(input, Digit0) # -1
    /\ calls < MaxCalls
    /\ input' = ConvertNumber(input, 8, FindEscape(input, Digit0))
    /\ calls' = calls + 1
    /\ UNCHANGED <<args, files, flags, ei, inotify, wd_map, os_watches, i, n,
                   stack, batch, received, stdout, pc, exit_code, epc>>

OctalLoopBreak ==
    /\ epc = "octal_loop"
    /\ FindEscape(input, Digit0) = -1
    /\ epc' = "done"
    /\ UNCHANGED <<args, files, flags, ei, inotify, wd_map, os_watches, i, n,
                   stack, batch, received, stdout, pc, exit_code, input, calls>>

(* main with -e and one argument: process_escapes(s).                      *)
InitEcho ==
    /\ Start(<<>>, FALSE, FALSE, <<>>)
    /\ input \in SeqsUpTo(EchoChars, MaxLen)
    /\ epc = "replace"
    /\ calls = 0

NextEcho ==
    \/ ProcessEscapesReplace
    \/ HexLoopConvert
    \/ HexLoopBreak
    \/ OctalLoopConvert
    \/ OctalLoopBreak

SpecEcho == InitEcho /\ [][NextEcho]_vars

-----------------------------------------------------------------------------
(* Vocabulary of the properties.                                           *)

EventLines == SelectSeq(stdout, LAMBDA l : l.kind = "event")

Delivered == Flatten(received)

RegisteredPaths == {wd_map[w] : w \in DOMAIN wd_map}

ErrorReported == \E k \in 1..Len(stdout) : stdout[k].kind \in ErrorKinds

ReportedFor(kind, p) ==
    \E k \in 1..Len(stdout) : stdout[k].kind = kind /\ stdout[k].path = p

(* The line an event is expected to print: registry path or "", the mask,  *)
(* the child name or "".                                                   *)
Decoded(e) ==
    [kind |-> "event",
     path |-> IF \E w \in DOMAIN wd_map : w = e.wd THEN wd_map[e.wd] ELSE "",
     mask |-> e.mask,
     name |-> IF Len(e.name) = 0 THEN "" ELSE e.name[1]]

DecodedAll(es) == [k \in 1..Len(es) |-> Decoded(es[k])]

RECURSIVE Below(_)
Below(p) == {p} \cup UNION {Below(c) : c \in Entries(p)}

(* The first input path has been enumerated and nothing after it.          *)
FirstRootEnumerated == i = 1 /\ stack = <<>> /\ argv_files # <<>>

DocumentedTokens ==
    {"access", "modify", "attrib", "close_write", "close_nowrite", "close",
     "open", "moved_to", "moved_from", "move", "moved_self", "create",
     "delete", "delete_self"}

HasUnknownToken == \E k \in 1..Len(events) : events[k] \notin DocumentedTokens

Bits == 0..30

HasBit(m, b) == (m \div (2 ^ b)) % 2 = 1

-----------------------------------------------------------------------------
(* C1: in one-shot mode (monitor not set) at most one blocking read is     *)
(* performed and at most one event line is printed; once a batch has been  *)
(* received and its first event printed the run has returned, the line is  *)
(* that of the first event of the first batch, and the rest of the batch   *)
(* is never printed.                                                       *)
C1_OneShotStopsAfterFirstEvent ==
    ~monitor =>
        /\ Len(received) <= 1
        /\ Len(EventLines) <= 1
        /\ (received # <<>> /\ pc # "for_events" => Len(EventLines) = 1)
        /\ (Len(EventLines) = 1 =>
                /\ pc = "returned"
                /\ exit_code = 0
                /\ EventLines[1] = Decoded(received[1][1]))

C1_Witness ==
    /\ ~monitor
    /\ pc = "returned"
    /\ Len(received) = 1
    /\ Len(received[1]) = 2
    /\ received[1][1] # received[1][2]
    /\ EventLines = <<Decoded(received[1][1])>>

(* C2: in monitor mode, once the watches are established, the event lines  *)
(* printed so far followed by the lines of the events of the current batch *)
(* still to be printed are exactly the lines of all delivered events in    *)
(* arrival order; between batches everything delivered has been printed,   *)
(* and the process is at the blocking read, inside a batch, or dead from a *)
(* failed read: it never returns or exits.                                 *)
C2_MonitorEmitsEveryEventInOrder ==
    monitor /\ Printed("Watches established.") =>
        /\ pc \in {"read", "for_events", "panicked"}
        /\ EventLines \o DecodedAll(batch) = DecodedAll(Delivered)
        /\ (pc = "for_events" <=> batch # <<>>)

C2_Witness ==
    /\ monitor
    /\ pc = "read"
    /\ Len(received) = 2
    /\ Len(received[1]) = 2
    /\ received[1][1] # received[1][2]
    /\ Len(EventLines) = 3
    /\ EventLines = DecodedAll(Delivered)

(* C3: when a path could not be stat'd or watched (and nothing fatal       *)
(* happened), the run is not aborted: it does not die in setup, and once   *)
(* setup is over every existing input path for which no failure was        *)
(* reported is in the registry.                                            *)
C3_PerPathFailureNeverAborts ==
    /\ Len(argv_files) >= 2
    /\ pc # "exited"
    /\ \/ Printed("error when getting metadata of")
       \/ Printed("failed to add inotify watch for")
    =>
    /\ ~(pc = "panicked" /\ ~Printed("Watches established."))
    /\ (Printed("Watches established.") =>
            \A k \in 1..Len(argv_files) :
                (/\ Exists(argv_files[k])
                 /\ ~ReportedFor("error when getting metadata of", argv_files[k])
                 /\ ~ReportedFor("failed to add inotify watch for", argv_files[k]))
                => argv_files[k] \in RegisteredPaths)

(* C4: once a failure to list a directory has been reported the process    *)
(* has exited with status 1; the watches were never reported established   *)
(* and no read was ever performed.                                         *)
C4_ListingFailureIsFatal ==
    Printed("error when reading directory") =>
        /\ pc = "exited"
        /\ exit_code = 1
        /\ ~Printed("Watches established.")
        /\ received = <<>>

C4_Witness ==
    /\ Printed("error when reading directory")
    /\ pc = "exited"
    /\ exit_code = 1
    /\ "root/a" \in RegisteredPaths
    /\ ReportedFor("error when reading directory", "root/c")

(* C5: with recursive set and no failure reported, after the enumeration   *)
(* of a root directory the registered paths are exactly the root and the   *)
(* directories below it, each under the descriptor the kernel gave it, and *)
(* no non-directory below the root is registered.                          *)
C5_RecursiveRegistersEveryDirectory ==
    (/\ recursive
     /\ FirstRootEnumerated
     /\ IsDir(argv_files[1])
     /\ ~ErrorReported)
    =>
    /\ RegisteredPaths = Below(argv_files[1]) \cap Dirs
    /\ RegisteredPaths \cap RegularFiles = {}
    /\ DOMAIN os_watches = RegisteredPaths
    /\ \A p \in RegisteredPaths : wd_map[os_watches[p]] = p
    /\ Cardinality(DOMAIN wd_map) = Cardinality(RegisteredPaths)

C5_Witness ==
    /\ recursive
    /\ FirstRootEnumerated
    /\ argv_files[1] = "root"
    /\ ~ErrorReported
    /\ RegisteredPaths = {"root", "root/a", "root/b", "root/c", "root/c/d"}
    /\ pc = "read"

(* C6: with recursive not set and no failure reported, after the           *)
(* enumeration of a root directory only the root itself is registered.     *)
C6_NonRecursiveWatchesSingleLevel ==
    (/\ ~recursive
     /\ FirstRootEnumerated
     /\ IsDir(argv_files[1])
     /\ ~ErrorReported)
    => RegisteredPaths = {argv_files[1]}

(* C7: when the filter list holds a token outside the recognized set, at   *)
(* any position, the process never leaves setup_flags except by exit(1):   *)
(* the notification channel is never initialised, no watch exists in the   *)
(* kernel or the registry, and no read is performed.                       *)
C7_UnknownTokenIsFatalBeforeSetup ==
    HasUnknownToken =>
        /\ pc \in {"setup_flags", "exited"}
        /\ (pc = "exited" => exit_code = 1 /\ Printed("unknown event type"))
        /\ ~inotify
        /\ wd_map = <<>>
        /\ os_watches = <<>>
        /\ received = <<>>
        /\ ~Printed("Setting up watches.")

C7_Witness ==
    /\ Len(events) = 2
    /\ events[1] \in DocumentedTokens
    /\ events[2] \notin DocumentedTokens
    /\ argv_files # <<>>
    /\ pc = "exited"
    /\ exit_code = 1
    /\ ~inotify
    /\ wd_map = <<>>

(* C8: printing an event whose descriptor is not in the registry prints    *)
(* its line with the empty path and moves on exactly as for any event:     *)
(* return in one-shot mode, the next event of the batch or the next        *)
(* blocking read in monitor mode.                                          *)
C8_UnknownHandleDecodesToEmptyPath ==
    [][(pc = "for_events" /\ Head(batch).wd \notin DOMAIN wd_map) =>
            /\ stdout' = Append(stdout, [kind |-> "event", path |-> "",
                                         mask |-> Head(batch).mask,
                                         name |-> IF Head(batch).name = <<>> THEN ""
                                                  ELSE Head(batch).name[1]])
            /\ pc' = IF ~monitor THEN "returned"
                     ELSE IF Len(batch) > 1 THEN "for_events" ELSE "read"
            /\ wd_map' = wd_map]_vars

C8_Witness ==
    /\ monitor
    /\ pc = "read"
    /\ wd_map # <<>>
    /\ Len(Delivered) = 3
    /\ Delivered[1].wd \notin DOMAIN wd_map
    /\ Delivered[2].wd \in DOMAIN wd_map
    /\ Len(EventLines) = 3
    /\ EventLines[1].path = ""
    /\ EventLines[2].path = wd_map[Delivered[2].wd]

(* C9: for a non-empty list of recognized tokens, a bit is set in the mask *)
(* built from the tokens read so far exactly when it is set in the mask of *)
(* one of them; the translated mask therefore depends only on the set of   *)
(* tokens, not on their order or multiplicity.                             *)
C9_MaskIsOrOfTokenMasks ==
    (events # <<>> /\ ~HasUnknownToken) =>
        \A b \in Bits :
            HasBit(flags, b) <=> \E k \in 1..(ei - 1) : HasBit(TokenMask(events[k]), b)

C9_Witness ==
    /\ pc = "returned"
    /\ Len(events) = 3
    /\ ei = 4
    /\ events[1] = "close"
    /\ events[2] = "create"
    /\ events[3] = "close"
    /\ flags = CLOSE_WRITE + CLOSE_NOWRITE + CREATE

(* C10: for the empty filter list the mask is exactly access, attrib,      *)
(* close_write, close_nowrite, create, delete, delete_self, modify,        *)
(* moved_from, moved_to, move_self and open.                               *)
C10_EmptyFilterIsDefaultSet ==
    (events = <<>> /\ pc # "setup_flags") =>
        flags = ACCESS + ATTRIB + CLOSE_WRITE + CLOSE_NOWRITE + CREATE + DELETE
                + DELETE_SELF + MODIFY + MOVED_FROM + MOVED_TO + MOVE_SELF + OPEN

C10_Witness ==
    /\ events = <<>>
    /\ pc = "returned"
    /\ \A b \in Bits : HasBit(flags, b) <=> b \in 0..11

(* C11: the registry and the kernel's watches change only in add_watch,    *)
(* before the watches are reported established and before any read: no     *)
(* step taken once the first blocking read is reached (read, decode,       *)
(* print) changes either, also not the printing of an event that reports a *)
(* directory created inside a watched directory.                           *)
C11_RegistryWrittenOnlyDuringSetup ==
    [][/\ (wd_map' # wd_map \/ os_watches' # os_watches) =>
            /\ pc = "inotify_add_watch"
            /\ ~Printed("Watches established.")
            /\ received = <<>>
            /\ received' = <<>>
       /\ (pc \in {"read", "for_events"} =>
            wd_map' = wd_map /\ os_watches' = os_watches)]_vars

C11_Witness ==
    /\ monitor
    /\ pc = "read"
    /\ Len(Delivered) >= 2
    /\ Delivered[1].mask = CreateDir
    /\ Delivered[1].wd \in DOMAIN wd_map
    /\ wd_map[Delivered[1].wd] = "root/c/d"
    /\ EventLines[1] = [kind |-> "event", path |-> "root/c/d", mask |-> CreateDir,
                        name |-> "new"]
    /\ RegisteredPaths = {"root", "root/a", "root/b", "root/c", "root/c/d"}
    /\ DOMAIN os_watches = RegisteredPaths
    /\ Cardinality(DOMAIN wd_map) = 5

(* C12: every call of convert_number made by the two loops of              *)
(* process_escapes rewrites the string (it removes or replaces the escape  *)
(* it was called for), and shortens it, so that the loops end after at     *)
(* most as many calls as the string is long.                               *)
C12_EscapeLoopsMakeProgress ==
    [][calls' = calls + 1 => (input' # input /\ Len(input') < Len(input))]_vars

====
